---- MODULE Spec2Model ----
(***************************************************************************)
(* Model of two classes of PsychoPy:                                       *)
(*   psychopy/experiment/components/image/__init__.py  ImageComponent      *)
(*   psychopy/sound/_microphone.py                     Microphone          *)
(*                                                                         *)
(* Python values are records [ty, v] so that None, 'None', True and 'True' *)
(* stay distinct.  An emitted statement is the sequence of its fields,     *)
(* each a field name with the literal substituted for it.                  *)
(***************************************************************************)
EXTENDS Integers, Sequences, FiniteSets, TLC

VARIABLES
    comps,      \* the routine: sequence of the components' params mappings
    buff,       \* the output sink: sequence of emitted statements
    lastCall,   \* the last operation on a component and how it ended
    edits,      \* number of changes the editing layer has made
    statusFlag, \* Microphone._statusFlag
    stopTime,   \* Microphone._stopTime: << >> is None, <<t>> is float t
    recording,  \* Microphone._recording: the PTB stream behind the handle
    micCall,    \* the last Microphone operation and how it ended
    lastStartStop \* history: which of start() and stop() was called last

vars == <<comps, buff, lastCall, edits, statusFlag, stopTime, recording, micCall,
         lastStartStop>>
imageVars == <<comps, buff, lastCall, edits>>
micVars == <<statusFlag, stopTime, recording, micCall, lastStartStop>>

----------------------------------------------------------------------------
(* Bounds *)
MaxBuff == 2
MaxEdits == 1
MaxSiblings == 4
MaxStopTime == 2

----------------------------------------------------------------------------
(* Python values *)
PyNone == [ty |-> "NoneType", v |-> "None"]
PyTrue == [ty |-> "bool", v |-> "True"]
PyFalse == [ty |-> "bool", v |-> "False"]
S(x) == [ty |-> "str", v |-> x]

(* Param(val, valType, inputType, allowedVals, updates, allowedUpdates):   *)
(* a plain holder of what it is given.                                     *)
Param(val, valType, inputType, allowedVals, updates, allowedUpdates) ==
    [val |-> val, valType |-> valType, inputType |-> inputType,
     allowedVals |-> allowedVals, updates |-> updates,
     allowedUpdates |-> allowedUpdates]

(* A plain Python str stored where a Param was (writeInitCodeJS does so    *)
(* for booleans).                                                          *)
PyStrEntry(s) == Param(S(s), "pystr", "", {}, "None", {})

Without(p, names) == [n \in (DOMAIN p) \ names |-> p[n]]

----------------------------------------------------------------------------
(* BaseVisualComponent.__init__: the parameters every visual component     *)
(* has before ImageComponent adds its own.                                 *)
UpdateChoices == {"constant", "set every repeat", "set every frame"}
UnitsChoices == {"from exp settings", "deg", "cm", "pix", "norm", "height"}

BaseVisualComponent(name, units, color, colorSpace, pos, size, ori) ==
    [n \in {"name", "units", "color", "colorSpace", "pos", "size", "ori",
            "opacity", "fillColor", "fillColorSpace", "borderColor",
            "borderColorSpace"} |->
        CASE n = "name" -> Param(S(name), "code", "single", {}, "None", {})
          [] n = "units" -> Param(S(units), "str", "choice", UnitsChoices, "None", {})
          [] n = "color" -> Param(S(color), "str", "single", {}, "constant", UpdateChoices)
          [] n = "colorSpace" -> Param(S(colorSpace), "str", "choice", {"rgb", "dkl", "lms", "hsv"}, "None", {})
          [] n = "pos" -> Param(S(pos), "code", "single", {}, "constant", UpdateChoices)
          [] n = "size" -> Param(S(size), "code", "single", {}, "constant", UpdateChoices)
          [] n = "ori" -> Param(S(ori), "code", "single", {}, "constant", UpdateChoices)
          [] n = "opacity" -> Param(S("1"), "code", "single", {}, "constant", UpdateChoices)
          [] n = "fillColor" -> Param(S("$[1,1,1]"), "str", "single", {}, "constant", UpdateChoices)
          [] n = "fillColorSpace" -> Param(S("rgb"), "str", "choice", {"rgb", "dkl", "lms", "hsv"}, "None", {})
          [] n = "borderColor" -> Param(S("$[1,1,1]"), "str", "single", {}, "constant", UpdateChoices)
          [] OTHER -> Param(S("rgb"), "str", "choice", {"rgb", "dkl", "lms", "hsv"}, "None", {})]

(* The six Params ImageComponent.__init__ creates (lines 56-103). *)
imageParam(image) ==
    Param(image, "file", "file", {}, "constant",
          {"constant", "set every repeat", "set every frame"})

(* Faulty variant: constant is missing from the allowed update policies. *)
maskParam_m(mask) ==
    Param(mask, "str", "single", {}, "constant",
          {"set every repeat", "set every frame"})

maskParam(mask) ==
    Param(mask, "str", "single", {}, "constant",
          {"constant", "set every repeat", "set every frame"})

texResParam(texRes) ==
    Param(texRes, "num", "choice", {"32", "64", "128", "256", "512"},
          "constant", {})

interpolateParam(interpolate) ==
    Param(interpolate, "str", "choice", {"linear", "nearest"}, "constant", {})

flipVertParam(flipVert) == Param(flipVert, "bool", "bool", {}, "constant", {})

flipHorizParam(flipHoriz) == Param(flipHoriz, "bool", "bool", {}, "constant", {})

OwnNames == {"image", "mask", "texture resolution", "interpolate",
             "flipVert", "flipHoriz"}

(* ImageComponent.__init__ (lines 32-108).  a is the record of the         *)
(* constructor's arguments; color, colorSpace, pos, size and ori keep      *)
(* their defaults.                                                         *)
ImageComponent(a) ==
    LET base == BaseVisualComponent(a.name, a.units, "$[1,1,1]", "rgb",
                                    "(0, 0)", "(0.5, 0.5)", "0")
        own == [n \in OwnNames |->
            CASE n = "image" -> imageParam(a.image)
              [] n = "mask" -> maskParam(a.mask)
              [] n = "texture resolution" -> texResParam(a.texRes)
              [] n = "interpolate" -> interpolateParam(a.interpolate)
              [] n = "flipVert" -> flipVertParam(a.flipVert)
              [] OTHER -> flipHorizParam(a.flipHoriz)]
        all == [n \in (DOMAIN base) \cup (DOMAIN own) |->
                    IF n \in DOMAIN own THEN own[n] ELSE base[n]]
    IN  Without(all, {"fillColor", "fillColorSpace", "borderColor",
                      "borderColorSpace"})

(* The constructor's defaults (line 32-36). *)
DefaultArgs(name) ==
    [name |-> name, image |-> S("None"), mask |-> S("None"),
     interpolate |-> S("linear"), units |-> "from exp settings",
     texRes |-> S("128"), flipVert |-> PyFalse, flipHoriz |-> PyFalse]

----------------------------------------------------------------------------
(* getInitVals(params, target): a fresh copy of the mapping in which a     *)
(* "no value" becomes the code None and an image or mask that is set       *)
(* during the run gets the default texture "sin".                          *)
getInitVals(params, target) ==
    [n \in DOMAIN params |->
        LET p == params[n] IN
        IF p.val \in {PyNone, S("None"), S("none"), S("")}
        THEN [p EXCEPT !.val = S("None"), !.valType = "code"]
        ELSE IF p.updates \in {"constant", "None"}
        THEN p
        ELSE IF n \in {"image", "mask"}
        THEN [p EXCEPT !.val = S("sin"), !.valType = "str"]
        ELSE p]

(* str(param): the literal a Param is rendered as. *)
Render(p) ==
    IF p.valType \in {"str", "file"} /\ p.val.ty = "str"
    THEN [text |-> p.val.v, quoted |-> TRUE]
    ELSE [text |-> p.val.v, quoted |-> FALSE]

(* getPosInRoutine(): the 1-based index of component i in its routine. *)
getPosInRoutine(i) == i

(* "%.1f" % depth, for the depths the bounds allow. *)
FmtDepth(d) ==
    CASE d = 0 -> "0.0" [] d = -1 -> "-1.0" [] d = -2 -> "-2.0"
      [] d = -3 -> "-3.0" [] d = -4 -> "-4.0" [] d = -5 -> "-5.0"
      [] OTHER -> "-6.0"

(* One field of a statement: its name, the text substituted, whether the   *)
(* text stands in string quotes, and the call wrapped around it.           *)
Fld(field, text, quoted, wrap) ==
    [field |-> field, text |-> text, quoted |-> quoted, wrap |-> wrap]
Sub(field, p) == Fld(field, Render(p).text, Render(p).quoted, "")

(* What one call of an emitter does: err is "" or the exception raised,    *)
(* params is self.params when the call ends, code is the statement handed  *)
(* to buff.writeIndentedLines (meaningful only when err is "").            *)
Effect(err, params, code) == [err |-> err, params |-> params, code |-> code]
Stmt(target, lhs, fields) == [target |-> target, lhs |-> lhs, fields |-> fields]
NoStmt == Stmt("", "", << >>)

(* The keys each emitter reads from self.params or from inits. *)
NativeKeys == {"units", "name", "image", "mask", "ori", "pos", "size",
               "color", "colorSpace", "opacity", "flipHoriz", "flipVert",
               "texture resolution", "interpolate"}
WebKeys == NativeKeys \ {"colorSpace"}

(* Faulty variant: the units clause is emitted whatever the value. *)
unitsStrPy_m(params) == << Sub("units", params["units"]) >>

(* The units clause of writeInitCode (lines 112-115). *)
unitsStrPy(params) ==
    IF params["units"].val = S("from exp settings")
    THEN << >>
    ELSE << Sub("units", params["units"]) >>

(* The interpolate clause of writeInitCode (lines 131-134). *)
interpPy(params) ==
    IF params["interpolate"].val = S("linear")
    THEN Fld("interpolate", "True", FALSE, "")
    ELSE Fld("interpolate", "False", FALSE, "")

(* Faulty variant: the position is taken 0-based. *)
depthOf_m(pos) == -(pos - 1)

(* depth = -self.getPosInRoutine() (lines 135 and 176). *)
depthOf(pos) == -pos

(* The statement writeInitCode builds (lines 112-136). *)
nativeStatement(params, pos) ==
    LET inits == getInitVals(params, "PsychoPy")
        code == << Fld("win", "win", FALSE, ""),
                   Fld("name", Render(inits["name"]).text, TRUE, "") >>
                \o unitsStrPy(params)
                \o << Sub("image", inits["image"]), Sub("mask", inits["mask"]),
                      Sub("ori", inits["ori"]), Sub("pos", inits["pos"]),
                      Sub("size", inits["size"]),
                      Sub("color", inits["color"]),
                      Sub("colorSpace", inits["colorSpace"]),
                      Sub("opacity", inits["opacity"]),
                      Sub("flipHoriz", inits["flipHoriz"]),
                      Sub("flipVert", inits["flipVert"]),
                      Sub("texRes", inits["texture resolution"]),
                      interpPy(params),
                      Fld("depth", FmtDepth(depthOf(pos)), FALSE, "") >>
    IN  Stmt("PsychoPy", Render(inits["name"]).text, code)

(* A mapping in which every key the Native emitter reads is present. *)
Filled(params) ==
    [n \in (DOMAIN params) \cup NativeKeys |->
        IF n \in DOMAIN params THEN params[n] ELSE PyStrEntry("None")]

(* Faulty variant: a missing key is given a default and the statement is  *)
(* emitted.                                                               *)
writeInitCode_m(params, pos) ==
    Effect("", params, nativeStatement(Filled(params), pos))

(* ImageComponent.writeInitCode (lines 110-137): a key the method looks up *)
(* and does not find raises KeyError before the sink is written.           *)
writeInitCode(params, pos) ==
    IF ~(NativeKeys \subseteq DOMAIN params)
    THEN Effect("KeyError", params, NoStmt)
    ELSE Effect("", params, nativeStatement(params, pos))

(* Faulty variant: the units clause is omitted as in writeInitCode. *)
unitsStrJS_m(params) ==
    IF params["units"].val = S("from exp settings")
    THEN << >>
    ELSE << Sub("units", params["units"]) >>

(* The units clause of writeInitCodeJS (lines 141-144). *)
unitsStrJS(params) ==
    IF params["units"].val = S("from exp settings")
    THEN << Fld("units", "undefined", FALSE, "") >>
    ELSE << Sub("units", params["units"]) >>

(* The loop of writeInitCodeJS over inits (lines 149-157). *)
coerceJS(inits) ==
    [n \in DOMAIN inits |->
        LET val == inits[n].val IN
        IF val = PyTrue THEN PyStrEntry("true")
        ELSE IF val = PyFalse THEN PyStrEntry("false")
        ELSE IF val \in {PyNone, S("None"), S("none"), S(""), S("sin")}
        THEN [inits[n] EXCEPT !.valType = "code", !.val = S("undefined")]
        ELSE inits[n]]

(* Faulty variant: every value but "nearest" counts as linear. *)
interpJS_m(params) ==
    IF params["interpolate"].val # S("nearest")
    THEN Fld("interpolate", "true", FALSE, "")
    ELSE Fld("interpolate", "false", FALSE, "")

(* The interpolate clause of writeInitCodeJS (lines 171-174). *)
interpJS(params) ==
    IF params["interpolate"].val = S("linear")
    THEN Fld("interpolate", "true", FALSE, "")
    ELSE Fld("interpolate", "false", FALSE, "")

(* The statement writeInitCodeJS builds (lines 141-179). *)
webStatement(params, pos) ==
    LET inits == coerceJS(getInitVals(params, "PsychoJS"))
        color == Fld("color", Render(inits["color"]).text,
                     Render(inits["color"]).quoted, "util.Color")
        code == << Fld("win", "psychoJS.window", FALSE, ""),
                   Fld("name", Render(inits["name"]).text, TRUE, "") >>
                \o unitsStrJS(params)
                \o << Sub("image", inits["image"]), Sub("mask", inits["mask"]),
                      Sub("ori", inits["ori"]), Sub("pos", inits["pos"]),
                      Sub("size", inits["size"]),
                      color,
                      Sub("opacity", inits["opacity"]),
                      Sub("flipHoriz", inits["flipHoriz"]),
                      Sub("flipVert", inits["flipVert"]),
                      Sub("texRes", inits["texture resolution"]),
                      interpJS(params),
                      Fld("depth", FmtDepth(depthOf(pos)), FALSE, "") >>
    IN  Stmt("PsychoJS", Render(inits["name"]).text, code)

(* Faulty variant: the loop coerces self.params itself, not a copy. *)
writeInitCodeJS_m(params, pos) ==
    IF ~(WebKeys \subseteq DOMAIN params)
    THEN Effect("KeyError", params, NoStmt)
    ELSE Effect("", coerceJS(getInitVals(params, "PsychoJS")),
                webStatement(params, pos))

(* ImageComponent.writeInitCodeJS (lines 139-180). *)
writeInitCodeJS(params, pos) ==
    IF ~(WebKeys \subseteq DOMAIN params)
    THEN Effect("KeyError", params, NoStmt)
    ELSE Effect("", params, webStatement(params, pos))

----------------------------------------------------------------------------
(* The image component: state machine *)

Call(op, comp, err) == [op |-> op, comp |-> comp, err |-> err]

(* An entry of the sink: the statement appended, with (as history) the     *)
(* params mapping and routine position of the component that emitted it    *)
(* and the number of edits made before the emission.                       *)
Entry(code, params, pos, epoch) ==
    [code |-> code, of |-> params, pos |-> pos, epoch |-> epoch]

(* Names the builder gives to the images of one routine. *)
NameOf(i) ==
    CASE i = 1 -> "image" [] i = 2 -> "image_2" [] i = 3 -> "image_3"
      [] i = 4 -> "image_4" [] OTHER -> "image_5"

(* Constructor arguments tried by the emission runs. *)
EmitArgs ==
    { [DefaultArgs("image") EXCEPT !.image = im, !.interpolate = ip,
                                   !.units = u, !.flipVert = PyTrue] :
        im \in {S("face.jpg"), PyNone},
        ip \in {S("linear"), S("nearest")},
        u \in {"from exp settings", "deg", ""} }

(* Constructor arguments tried by the constructor runs. *)
AllArgs ==
    [name : {"image"},
     image : {S("face.jpg"), S("None"), PyNone},
     mask : {S("None"), S("circle")},
     interpolate : {S("linear"), S("nearest"), S("cubic")},
     units : {"from exp settings", "deg", ""},
     texRes : {S("128"), S("100")},
     flipVert : {PyFalse, PyTrue},
     flipHoriz : {PyFalse, PyTrue}]

(* Microphone.__init__ (lines 58-87): the stream is created open and not   *)
(* running, no stop time is set, the status flag is NOT_STARTED.           *)
MicCall(op, err, read, flagBefore) ==
    [op |-> op, err |-> err, read |-> read, flagBefore |-> flagBefore]
Stream(open, running, stop_time) ==
    [open |-> open, running |-> running, stop_time |-> stop_time]

MicInit ==
    /\ statusFlag = "NOT_STARTED"
    /\ stopTime = << >>
    /\ recording = Stream(TRUE, FALSE, << >>)
    /\ micCall = MicCall("__init__", "", TRUE, "NOT_STARTED")
    /\ lastStartStop = "none"

ImageInit ==
    /\ comps = << >>
    /\ buff = << >>
    /\ lastCall = Call("none", 0, "")
    /\ edits = 0

Init == ImageInit /\ MicInit

(* A component is constructed and added at the end of the routine. *)
Construct(a, cap) ==
    /\ Len(comps) < cap
    /\ comps' = Append(comps, ImageComponent(a))
    /\ lastCall' = Call("__init__", Len(comps) + 1, "")
    /\ UNCHANGED <<buff, edits, micVars>>

Emit(op, i, r) ==
    /\ comps' = [comps EXCEPT ![i] = r.params]
    /\ buff' = IF r.err = ""
               THEN Append(buff, Entry(r.code, comps[i], getPosInRoutine(i), edits))
               ELSE buff
    /\ lastCall' = Call(op, i, r.err)
    /\ UNCHANGED <<edits, micVars>>

WriteInitCode(i) ==
    /\ Len(buff) < MaxBuff
    /\ Emit("writeInitCode", i, writeInitCode(comps[i], getPosInRoutine(i)))

WriteInitCodeJS(i) ==
    /\ Len(buff) < MaxBuff
    /\ Emit("writeInitCodeJS", i, writeInitCodeJS(comps[i], getPosInRoutine(i)))

(* The editing layer, between generation passes. *)
EditChoices(n) ==
    CASE n = "interpolate" -> {S("linear"), S("nearest"), S("cubic")}
      [] n = "mask" -> {S(""), S("circle")}
      [] n = "units" -> {S("from exp settings"), S("pix")}
      [] OTHER -> {}

Deletable == {"opacity", "colorSpace", "interpolate", "units"}

Edited(i, p) ==
    /\ edits < MaxEdits
    /\ edits' = edits + 1
    /\ comps' = [comps EXCEPT ![i] = p]
    /\ lastCall' = Call("edit", i, "")
    /\ UNCHANGED <<buff, micVars>>

EditSetVal(i) ==
    \E n \in DOMAIN comps[i] : \E v \in EditChoices(n) :
        /\ comps[i][n].val # v
        /\ Edited(i, [comps[i] EXCEPT ![n].val = v])

EditSetUpdates(i) ==
    \E n \in {"image", "mask"} \cap DOMAIN comps[i] : \E u \in comps[i][n].allowedUpdates :
        /\ comps[i][n].updates # u
        /\ Edited(i, [comps[i] EXCEPT ![n].updates = u])

EditDelParam(i) ==
    \E n \in Deletable \cap DOMAIN comps[i] :
        Edited(i, Without(comps[i], {n}))

ConstructOne == \E a \in EmitArgs : Construct(a, 1)
EmitNative == \E i \in DOMAIN comps : WriteInitCode(i)
EmitWeb == \E i \in DOMAIN comps : WriteInitCodeJS(i)
EditVal == \E i \in DOMAIN comps : EditSetVal(i)
EditUpdates == \E i \in DOMAIN comps : EditSetUpdates(i)
EditDel == \E i \in DOMAIN comps : EditDelParam(i)

Next ==
    \/ ConstructOne
    \/ EmitNative
    \/ EmitWeb
    \/ EditVal
    \/ EditUpdates
    \/ EditDel

Spec == Init /\ [][Next]_vars

(* Construction alone, over every combination of arguments. *)
ConstructAny == \E a \in AllArgs : Construct(a, 1)
CtorNext == ConstructAny
CtorSpec == Init /\ [][CtorNext]_vars

(* A routine of siblings built with the default arguments. *)
ConstructSibling == Construct(DefaultArgs(NameOf(Len(comps) + 1)), MaxSiblings)
RoutineNext ==
    \/ ConstructSibling
    \/ EmitNative
    \/ EmitWeb
RoutineSpec == Init /\ [][RoutineNext]_vars

----------------------------------------------------------------------------
(* The microphone: state machine *)

(* Whether a call on the PTB stream returns (TRUE) or raises (FALSE).  PTB *)
(* is an external library: a call the stream's state allows returns; what  *)
(* any other call does is not fixed by this code, so both are possible.    *)
PTBReturns(allowed) == IF allowed THEN {TRUE} ELSE {TRUE, FALSE}

(* Values handed to the stopTime setter: [num |-> TRUE, v |-> t] is the    *)
(* number t, [num |-> FALSE, v |-> 0] a value that is no float or int.     *)
StopTimeInputs ==
    [num : {TRUE}, v : 1..MaxStopTime] \cup {[num |-> FALSE, v |-> 0]}

(* Microphone.stopTime setter (lines 139-142). *)
SetStopTime(value) ==
    /\ IF value.num
       THEN /\ stopTime' = <<value.v>>
            /\ micCall' = MicCall("stopTime", "", FALSE, statusFlag)
       ELSE /\ stopTime' = stopTime
            /\ micCall' = MicCall("stopTime", "AssertionError", FALSE, statusFlag)
    /\ UNCHANGED <<statusFlag, recording, lastStartStop, imageVars>>

(* Microphone.start (lines 144-157). *)
start ==
    \E ok \in PTBReturns(recording.open /\ ~recording.running) :
        /\ IF ok
           THEN /\ recording' = IF recording.open
                                THEN Stream(TRUE, TRUE, stopTime)
                                ELSE recording
                /\ statusFlag' = "STARTED"
                /\ micCall' = MicCall("start", "", FALSE, statusFlag)
           ELSE /\ UNCHANGED <<recording, statusFlag>>
                /\ micCall' = MicCall("start", "PTBError", FALSE, statusFlag)
        /\ lastStartStop' = "start"
        /\ UNCHANGED <<stopTime, imageVars>>

(* Microphone.stop (lines 159-167). *)
stop ==
    \E ok \in PTBReturns(recording.open) :
        /\ IF ok
           THEN /\ recording' = [recording EXCEPT !.running = FALSE]
                /\ statusFlag' = "NOT_STARTED"
                /\ micCall' = MicCall("stop", "", FALSE, statusFlag)
           ELSE /\ UNCHANGED <<recording, statusFlag>>
                /\ micCall' = MicCall("stop", "PTBError", FALSE, statusFlag)
        /\ lastStartStop' = "stop"
        /\ UNCHANGED <<stopTime, imageVars>>

(* Microphone.close (lines 169-171). *)
close ==
    \E ok \in PTBReturns(recording.open) :
        /\ IF ok
           THEN /\ recording' = Stream(FALSE, FALSE, recording.stop_time)
                /\ micCall' = MicCall("close", "", FALSE, statusFlag)
           ELSE /\ UNCHANGED recording
                /\ micCall' = MicCall("close", "PTBError", FALSE, statusFlag)
        /\ UNCHANGED <<statusFlag, stopTime, lastStartStop, imageVars>>

(* Microphone.getAudioClip (lines 173-184). *)
getAudioClip ==
    /\ IF statusFlag = "NOT_STARTED"
       THEN micCall' = MicCall("getAudioClip", "AudioStreamError", FALSE, statusFlag)
       ELSE \E ok \in PTBReturns(recording.open) :
              micCall' = MicCall("getAudioClip",
                                 IF ok THEN "" ELSE "PTBError", TRUE, statusFlag)
    /\ UNCHANGED <<statusFlag, stopTime, recording, lastStartStop, imageVars>>

SetStop == \E value \in StopTimeInputs : SetStopTime(value)

MicNext ==
    \/ SetStop
    \/ start
    \/ stop
    \/ close
    \/ getAudioClip

MicSpec == Init /\ [][MicNext]_vars

----------------------------------------------------------------------------
(* Properties of the emitted statements *)

Entries == {buff[k] : k \in DOMAIN buff}
NativeEntries == {e \in Entries : e.code.target = "PsychoPy"}
WebEntries == {e \in Entries : e.code.target = "PsychoJS"}
NamesOf(code) == [k \in DOMAIN code.fields |-> code.fields[k].field]
HasField(code, f) == \E k \in DOMAIN code.fields : code.fields[k].field = f
FieldAt(code, f) ==
    code.fields[CHOOSE k \in DOMAIN code.fields : code.fields[k].field = f]
FieldFor(n) == IF n = "texture resolution" THEN "texRes" ELSE n
Sentinels == {PyNone, S("None"), S("none"), S(""), S("sin")}
Minus(seq, names) == LET Keep(x) == x \notin names IN SelectSeq(seq, Keep)

(* C1: in a Web statement, every parameter whose value after getInitVals   *)
(* is None, "None", "none", "" or "sin" is substituted as the unquoted     *)
(* literal undefined, never as a quoted string and never as null.          *)
C1_SentinelIsUndefined ==
    \A e \in WebEntries :
        \A n \in DOMAIN e.of :
            (/\ getInitVals(e.of, "PsychoJS")[n].val \in Sentinels
             /\ HasField(e.code, FieldFor(n)))
            => /\ FieldAt(e.code, FieldFor(n)).text = "undefined"
               /\ ~FieldAt(e.code, FieldFor(n)).quoted

(* C2 as stated: the Web statement has the same sequence of field names as *)
(* the Native statement of the same parameters.                            *)
C2_SameFieldSequence ==
    \A e \in NativeEntries : \A w \in WebEntries :
        e.of = w.of => NamesOf(w.code) = NamesOf(e.code)

(* C2 as amended: the Web statement has the Native statement's fields in   *)
(* the Native order, except that colorSpace is left out and that units is  *)
(* always present as the third field, also when Native omits it.           *)
C2_WebFieldsAmended ==
    \A e \in NativeEntries : \A w \in WebEntries :
        e.of = w.of =>
            /\ Minus(NamesOf(w.code), {"units"})
                 = Minus(NamesOf(e.code), {"units", "colorSpace"})
            /\ NamesOf(w.code)[3] = "units"
            /\ ~HasField(w.code, "colorSpace")
            /\ HasField(e.code, "colorSpace")
            /\ HasField(e.code, "units") =>
                  NamesOf(w.code) = Minus(NamesOf(e.code), {"colorSpace"})

C2_Witness ==
    \E e \in NativeEntries : \E w \in WebEntries :
        /\ e.of = w.of
        /\ ~HasField(e.code, "units")
        /\ FieldAt(w.code, "units").text = "undefined"

(* C3: the Native statement has a units clause if and only if the raw      *)
(* value of units differs from "from exp settings"; there is no empty or   *)
(* null clause in the other case.                                          *)
C3_UnitsClauseIffNotSentinel ==
    \A e \in NativeEntries :
        /\ HasField(e.code, "units")
             <=> e.of["units"].val # S("from exp settings")
        /\ HasField(e.code, "units") =>
             /\ FieldAt(e.code, "units").text = e.of["units"].val.v
             /\ FieldAt(e.code, "units").text # "from exp settings"
        /\ Len(e.code.fields)
             = IF e.of["units"].val = S("from exp settings") THEN 15 ELSE 16

C3_Witness ==
    \E e \in NativeEntries : \E f \in NativeEntries :
        /\ e.of["units"].val = S("from exp settings")
        /\ ~HasField(e.code, "units")
        /\ f.of["units"].val = S("pix")
        /\ HasField(f.code, "units")

(* C4: in both targets the interpolate field is the true literal exactly   *)
(* when the raw value of interpolate is "linear" and the false literal     *)
(* otherwise; two statements of one target whose parameters differ only in *)
(* interpolate, one of them "linear", differ only in that field.           *)
TrueLit(target) == IF target = "PsychoPy" THEN "True" ELSE "true"
FalseLit(target) == IF target = "PsychoPy" THEN "False" ELSE "false"

C4_InterpolateLiteral ==
    /\ \A e \in Entries :
          /\ HasField(e.code, "interpolate")
          /\ ~FieldAt(e.code, "interpolate").quoted
          /\ FieldAt(e.code, "interpolate").text
               = IF e.of["interpolate"].val = S("linear")
                 THEN TrueLit(e.code.target) ELSE FalseLit(e.code.target)
    /\ \A e \in Entries : \A f \in Entries :
          (/\ e.code.target = f.code.target
           /\ e.pos = f.pos
           /\ e.of["interpolate"].val = S("linear")
           /\ f.of["interpolate"].val # S("linear")
           /\ f.of = [e.of EXCEPT !["interpolate"].val = f.of["interpolate"].val])
          => /\ Len(e.code.fields) = Len(f.code.fields)
             /\ e.code.lhs = f.code.lhs
             /\ \A k \in DOMAIN e.code.fields :
                   IF e.code.fields[k].field = "interpolate"
                   THEN f.code.fields[k] # e.code.fields[k]
                   ELSE f.code.fields[k] = e.code.fields[k]

C4_Witness ==
    \E e \in WebEntries : \E f \in WebEntries :
        /\ e.of["interpolate"].val = S("linear")
        /\ f.of["interpolate"].val = S("nearest")
        /\ f.of = [e.of EXCEPT !["interpolate"].val = S("nearest")]
        /\ FieldAt(e.code, "interpolate").text = "true"
        /\ FieldAt(f.code, "interpolate").text = "false"

LastField(code) == code.fields[Len(code.fields)]

(* C5: for the N siblings of a routine at positions 1..N, the depth in the *)
(* statement of the component at position k is -k, rendered "%.1f", for    *)
(* either target; it is the last field; siblings have distinct depths.     *)
C5_DepthIsMinusPosition ==
    /\ \A e \in Entries : \A k \in DOMAIN comps :
          comps[k]["name"].val.v = e.code.lhs =>
             /\ LastField(e.code).field = "depth"
             /\ LastField(e.code).text = FmtDepth(0 - k)
             /\ ~LastField(e.code).quoted
             /\ \A j \in 1..(Len(e.code.fields) - 1) :
                   e.code.fields[j].field # "depth"
    /\ \A e \in Entries : \A f \in Entries :
          (e.code.lhs = f.code.lhs)
             <=> (LastField(e.code).text = LastField(f.code).text)

C5_Witness ==
    \E e \in NativeEntries : \E w \in WebEntries :
        /\ e.code.lhs = "image"
        /\ LastField(e.code).text = "-1.0"
        /\ w.code.lhs = "image_2"
        /\ LastField(w.code).text = "-2.0"
        /\ Len(comps) = MaxSiblings

IsEmit(op) == op \in {"writeInitCode", "writeInitCodeJS"}

(* Statements of one component and one target, emitted with no edit in     *)
(* between, are the same statement.                                        *)
SameText(sink) ==
    \A j \in DOMAIN sink : \A k \in DOMAIN sink :
        (/\ sink[j].code.target = sink[k].code.target
         /\ sink[j].pos = sink[k].pos
         /\ sink[j].epoch = sink[k].epoch)
        => sink[j].code = sink[k].code

(* C6: an emission leaves every parameter's value and declared type as it  *)
(* was, so while the editing layer changes nothing each emission for a     *)
(* target yields the text of the first one.                                *)
C6_EmissionLeavesParams ==
    [][ IsEmit(lastCall'.op) => (comps' = comps /\ SameText(buff')) ]_vars

C6_Witness ==
    /\ Len(buff) = MaxBuff
    /\ IsEmit(lastCall.op)
    /\ \E j \in DOMAIN buff : \E k \in DOMAIN buff :
          /\ j < k
          /\ buff[j].code.target = "PsychoJS"
          /\ buff[k].code.target = "PsychoPy"
          /\ buff[j].epoch = buff[k].epoch
          /\ buff[k].of = comps[buff[k].pos]
          /\ buff[j].of = buff[k].of
          /\ buff[j].of["flipVert"].val = PyTrue

(* C7: an emission for a component that lacks a key the emitter looks up   *)
(* fails with an error and appends nothing; the sink keeps its entries.    *)
KeysOf(op) == IF op = "writeInitCode" THEN NativeKeys ELSE WebKeys

C7_MissingFieldFails ==
    [][ (/\ IsEmit(lastCall'.op)
         /\ ~(KeysOf(lastCall'.op) \subseteq DOMAIN comps[lastCall'.comp]))
        => (/\ lastCall'.err = "KeyError"
            /\ buff' = buff) ]_vars

C7_Witness ==
    /\ IsEmit(lastCall.op)
    /\ lastCall.err = "KeyError"
    /\ "opacity" \notin DOMAIN comps[lastCall.comp]
    /\ Len(buff) = 1

----------------------------------------------------------------------------
(* Properties of the constructor *)

(* C8 as stated: every Param the constructor creates has its update policy *)
(* among its allowed update policies and, when it is a choice, its value   *)
(* among its allowed values.                                               *)
C8_ParamInvariant ==
    \A i \in DOMAIN comps : \A n \in OwnNames :
        /\ comps[i][n].updates \in comps[i][n].allowedUpdates
        /\ comps[i][n].inputType = "choice" =>
              comps[i][n].val.v \in comps[i][n].allowedVals

(* C8 as amended: image and mask have their update policy, constant, among *)
(* their allowed update policies; texture resolution, interpolate,         *)
(* flipVert and flipHoriz have the policy constant and an empty list of    *)
(* allowed policies; a choice holds the argument as passed, which is among *)
(* its allowed values exactly when the argument is one of them.            *)
C8_ConstructedParams ==
    \A i \in DOMAIN comps :
        /\ \A n \in {"image", "mask"} :
              /\ comps[i][n].updates = "constant"
              /\ comps[i][n].updates \in comps[i][n].allowedUpdates
        /\ \A n \in OwnNames \ {"image", "mask"} :
              /\ comps[i][n].updates = "constant"
              /\ comps[i][n].allowedUpdates = {}
        /\ comps[i]["interpolate"].val.v \in comps[i]["interpolate"].allowedVals
              <=> comps[i]["interpolate"].val \in {S("linear"), S("nearest")}
        /\ comps[i]["texture resolution"].val.v
                 \in comps[i]["texture resolution"].allowedVals
              <=> comps[i]["texture resolution"].val
                 \in {S("32"), S("64"), S("128"), S("256"), S("512")}

C8_Witness ==
    /\ lastCall.op = "__init__"
    /\ Len(comps) = 1
    /\ comps[1]["interpolate"].val = S("cubic")
    /\ comps[1]["texture resolution"].val = S("100")
    /\ comps[1]["mask"].val = S("circle")
    /\ comps[1]["flipHoriz"].val = PyTrue

----------------------------------------------------------------------------
(* Properties of the microphone *)

(* C9: the stored stop time never changes while the status flag is         *)
(* STARTED.                                                                *)
C9_StopTimeFixedWhileStarted ==
    [][ statusFlag = "STARTED" => stopTime' = stopTime ]_vars

(* C10: getAudioClip() leaves the status flag alone, reads the stream only *)
(* when the last of start() and stop() was start() and the stream has not  *)
(* been closed, and raises AudioStreamError without reading otherwise.     *)
C10_ClipOnlyFromStartedOpenStream ==
    micCall.op = "getAudioClip" =>
        /\ statusFlag = micCall.flagBefore
        /\ micCall.read => (recording.open /\ lastStartStop = "start")
        /\ (~recording.open \/ lastStartStop # "start") =>
              (micCall.err = "AudioStreamError" /\ ~micCall.read)

====
